---- MODULE Spec2Model ----
(***************************************************************************)
(* A model of two concurrent subsystems of HotSpot:                        *)
(*   - MallocSiteTable (services/mallocSiteTable.cpp): the lock-free hash  *)
(*     table of allocation sites and its shared/exclusive AccessLock;      *)
(*   - G1BarrierSet (gc/g1/g1BarrierSet.cpp): the post-write card marking  *)
(*     barrier, invalidate and the per-thread dirty card queues.           *)
(* Every statement of the C++ code that reads or writes shared memory is   *)
(* one step of the thread that executes it.                                *)
(***************************************************************************)
EXTENDS Integers, Sequences, FiniteSets, TLC

(***************************************************************************)
(* Bounds of the model.                                                    *)
(***************************************************************************)
\* cards of the card table, and heap words covered by one card
NumCards == 2
CardWords == 2
\* width in bits of the modelled C++ int (the access counter)
IntBits == 5
\* number of buckets of _table, and the bound on bucket positions
table_size == 2
MAX_BUCKET_LENGTH == 2
\* entries AllocateHeap can hand out before it returns NULL
MaxHeapEntries == 3
\* how many times initialize() may run
MaxInits == 2
\* object references, slots of an array, entries in the SATB queues
NumOops == 2
MaxCount == 2
MaxSATB == 2

\* the threads of the program; those that look up and add sites; the one
\* that shuts the table down and those that walk it meanwhile
Threads == {1, 2, 3}
LookupThreads == {1, 2}
ShutdownThreads == {1}
WalkThreads == {2, 3}

NULL == 0

(***************************************************************************)
(* C++ int arithmetic: two's complement of IntBits bits.                   *)
(***************************************************************************)
RECURSIVE Pow2(_)
Pow2(n) == IF n = 0 THEN 1 ELSE 2 * Pow2(n - 1)

MinInt == 0 - Pow2(IntBits - 1)
MaxInt == Pow2(IntBits - 1) - 1

Wrap(x) == ((x - MinInt) % Pow2(IntBits)) + MinInt

\* AccessLock::_MAGIC_: the large negative offset that marks exclusive
\* intent; the most negative value an int holds.
_MAGIC_ == MinInt

(***************************************************************************)
(* Call stacks, memory flags, hashing.                                     *)
(***************************************************************************)
\* A NativeCallStack is the sequence of its frames' pcs.
BootStack == <<2, 2>>
UserStacks == {<<1, 3>>, <<3, 1>>, <<1, 2>>}
\* no stack: a NULL NativeCallStack pointer
NoStack == <<>>

UserFlags == {"mtGC", "mtThread"}

\* the (stack, flags) pairs the threads ask for: two stacks that collide with
\* each other and with the bootstrap stack, one of them under two flags, and
\* a stack of another hash
Requests == {<<<<1, 3>>, "mtGC">>, <<<<1, 3>>, "mtThread">>, <<<<3, 1>>, "mtGC">>,
             <<<<1, 2>>, "mtGC">>}

RECURSIVE SumSeq(_)
SumSeq(s) == IF s = <<>> THEN 0 ELSE Head(s) + SumSeq(Tail(s))

\* NativeCallStack::hash(): the sum of the frames' pcs
hash(stack) == SumSeq(stack)

hash_to_index(h) == h % table_size

(***************************************************************************)
(* Hashtable entries.  Entry 1 is the static entry of initialize(); the    *)
(* others are handed out by AllocateHeap in increasing order and never     *)
(* reused, so that a pointer to a deleted entry stays recognisable.        *)
(***************************************************************************)
StaticEntry == 1
Entries == 1..(MaxHeapEntries + 1)
HeapEntries == Entries \ {StaticEntry}

VARIABLES
    access_count,   \* MallocSiteTable::_access_count
    table,          \* MallocSiteTable::_table: bucket index -> entry or NULL
    next,           \* MallocSiteHashtableEntry::_next of every entry
    site,           \* MallocSiteHashtableEntry::_malloc_site: [stack, flags]
    heap,           \* "free" | "live" | "deleted" | "static" of every entry
    hash_entry_allocation_stack,
    hash_entry_allocation_site,
    th,             \* the threads' positions and locals
    inits,          \* how many times initialize() has run
    excl_done,      \* an exclusiveLock() CAS has succeeded
    ub,             \* a deleted entry or a NULL pointer was dereferenced
    vm_aborted,     \* an assertion failed
    cards,          \* the card table: card index -> CardValue
    dcq,            \* every thread's G1DirtyCardQueue
    g1,             \* the threads' positions and locals inside G1BarrierSet
    satb_set_active,\* G1BarrierSet::_satb_mark_queue_set.is_active()
    satb_active,    \* every thread's SATBMarkQueue: is_active()
    satb,           \* every thread's SATBMarkQueue: its entries
    satb_qset,      \* the entries flushed to _satb_mark_queue_set
    dcq_qset,       \* the entries flushed to _dirty_card_queue_set
    dcq_active,     \* every thread's G1DirtyCardQueue: is_active()
    life,           \* every thread's place in its life cycle
    sb              \* the threads' positions and locals inside the SATB
                    \* barrier and the life cycle hooks

mstVars == <<access_count, table, next, site, heap, hash_entry_allocation_stack,
             hash_entry_allocation_site, th, inits, excl_done, ub, vm_aborted>>

g1Vars == <<cards, dcq, g1>>

satbVars == <<satb_set_active, satb_active, satb, satb_qset, dcq_qset, dcq_active,
              life, sb>>

vars == <<mstVars, g1Vars, satbVars>>

Idle == [pc |-> "idle", lock_state |-> "NoLock", val |-> 0, target |-> 0,
         index |-> 0, head |-> NULL, pos_idx |-> 0, entry |-> NULL,
         key |-> NoStack, flags |-> "mtNone", ret |-> NULL, added |-> FALSE,
         res |-> "none", visited |-> <<>>,
         stopped |-> FALSE,  \* the walker has answered false
         oom |-> FALSE,      \* AllocateHeap has returned NULL to the call
         lost |-> {},        \* the entries of the call that lost their CAS
         inspected |-> 0,    \* the chain nodes the loop of the call has inspected
         head_cas |-> 0,     \* the bucket-head CASes the call has attempted
         tail_cas |-> 0]     \* the tail CASes attempted at the inspected node

\* G1CardTable's card values
clean_card_val == "clean"
dirty_card_val == "dirty"
g1_young_card_val == "young"
CardValues == {clean_card_val, dirty_card_val, g1_young_card_val}

Cards == 0..(NumCards - 1)
HeapWords == NumCards * CardWords

G1Idle == [pc |-> "idle", byte |-> 0, last_byte |-> 0, start |-> 0, word_size |-> 0,
           before |-> <<>>, queued |-> 0,
           fenced |-> FALSE]   \* the call has executed OrderAccess::storeload()

\* the barrier set at rest: every card clean, every queue empty
G1Rest ==
    /\ cards = [c \in Cards |-> clean_card_val]
    /\ dcq = [t \in Threads |-> <<>>]
    /\ g1 = [t \in Threads |-> G1Idle]

SBIdle == [pc |-> "idle", dst |-> <<>>, count |-> 0, i |-> 0,
           dest_uninitialized |-> FALSE,
           calls |-> <<>>, queued |-> 0, is_satb_active |-> FALSE,
           before_satb |-> <<>>, before_dcq |-> <<>>]

\* no thread exists yet, marking is not active, the queue sets are empty
SATBRest ==
    /\ satb_set_active = FALSE
    /\ satb_active = [t \in Threads |-> FALSE]
    /\ satb = [t \in Threads |-> <<>>]
    /\ satb_qset = <<>>
    /\ dcq_qset = <<>>
    /\ dcq_active = [t \in Threads |-> FALSE]
    /\ life = [t \in Threads |-> "none"]
    /\ sb = [t \in Threads |-> SBIdle]

MSTRest ==
    /\ access_count = 0
    /\ table = [i \in 0..(table_size - 1) |-> NULL]
    /\ next = [e \in Entries |-> NULL]
    /\ site = [e \in Entries |->
                 IF e = StaticEntry THEN [stack |-> BootStack, flags |-> "mtNMT"]
                 ELSE [stack |-> NoStack, flags |-> "mtNone"]]
    /\ heap = [e \in Entries |-> IF e = StaticEntry THEN "static" ELSE "free"]
    /\ hash_entry_allocation_stack = NoStack
    /\ hash_entry_allocation_site = NULL
    /\ th = [t \in Threads |-> Idle]
    /\ inits = 0
    /\ excl_done = FALSE
    /\ ub = FALSE
    /\ vm_aborted = FALSE

InitMST == MSTRest /\ G1Rest /\ SATBRest

\* the program runs until an assertion aborts it or its behaviour is undefined
Halted == [Idle EXCEPT !.pc = "halted"]

Set(t, r) == th' = [th EXCEPT ![t] = r]

tableVars == <<table, next, site, heap>>
hashVars == <<hash_entry_allocation_stack, hash_entry_allocation_site>>
flagVars == <<inits, excl_done, ub, vm_aborted>>

\* a pointer that may be dereferenced
Valid(e) == e # NULL /\ heap[e] \in {"live", "static"}

\* dereferencing anything else is undefined behaviour: the model records it
\* and stops
Undefined ==
    /\ ub' = TRUE
    /\ th' = [t \in Threads |-> Halted]
    /\ UNCHANGED <<access_count, tableVars, hashVars, inits, excl_done, vm_aborted>>

(***************************************************************************)
(* MallocSiteTable::initialize                                             *)
(***************************************************************************)
\* initialize that links the static entry in the bucket after the one of its
\* stack's hash
initialize_next_bucket ==
    /\ UNCHANGED <<g1Vars, satbVars>>
    /\ \A t \in Threads : th[t].pc = "idle"
    /\ inits < MaxInits
    /\ hash_entry_allocation_stack = NoStack /\ hash_entry_allocation_site = NULL
    /\ hash_entry_allocation_stack' = BootStack
    /\ hash_entry_allocation_site' = StaticEntry
    /\ table' = [table EXCEPT
                   ![(hash_to_index(hash(BootStack)) + 1) % table_size] = StaticEntry]
    /\ inits' = inits + 1
    /\ UNCHANGED <<access_count, next, site, heap, th, excl_done, ub, vm_aborted>>

initialize ==
    /\ UNCHANGED <<g1Vars, satbVars>>
    /\ \A t \in Threads : th[t].pc = "idle"
    /\ inits < MaxInits
    /\ hash_entry_allocation_stack = NoStack /\ hash_entry_allocation_site = NULL
    /\ hash_entry_allocation_stack' = BootStack
    /\ hash_entry_allocation_site' = StaticEntry
    /\ table' = [table EXCEPT ![hash_to_index(hash(BootStack))] = StaticEntry]
    /\ inits' = inits + 1
    /\ UNCHANGED <<access_count, next, site, heap, th, excl_done, ub, vm_aborted>>

(***************************************************************************)
(* AccessLock::sharedLock and ~AccessLock                                  *)
(***************************************************************************)
\* Atomic::add(1, _lock) of sharedLock(); the caller goes on at `body` when
\* the result is not negative and has to undo the increment otherwise
sharedLock(t, body) ==
    /\ access_count' = Wrap(access_count + 1)
    /\ IF access_count' < 0
       THEN Set(t, [Idle EXCEPT !.pc = "sl_undo"])
       ELSE Set(t, [body EXCEPT !.lock_state = "SharedLock"])

\* Atomic::dec(_lock) of a failed sharedLock(); the caller returns false
sharedLock_undo(t) ==
    /\ UNCHANGED <<g1Vars, satbVars>>
    /\ th[t].pc = "sl_undo"
    /\ access_count' = Wrap(access_count - 1)
    /\ Set(t, Idle)
    /\ UNCHANGED <<tableVars, hashVars, flagVars>>

\* ~AccessLock(): only a shared lock is ever released
AccessLock_destroy(t) ==
    access_count' = IF th[t].lock_state = "SharedLock"
                    THEN Wrap(access_count - 1) ELSE access_count

(***************************************************************************)
(* MallocSiteTable::new_entry                                              *)
(***************************************************************************)
\* AllocateHeap(..., RETURN_NULL): the next free entry, NULL when out of memory
AllocateHeap ==
    IF \E e \in HeapEntries : heap[e] = "free"
    THEN CHOOSE e \in HeapEntries :
            heap[e] = "free" /\ \A f \in HeapEntries : heap[f] = "free" => e <= f
    ELSE NULL

\* the thread leaves lookup_or_add with result r
\* (a site is returned from the body of the loop, which has inspected a node)
la_return(t, r) ==
    Set(t, [th[t] EXCEPT !.pc = "la_ret", !.ret = r, !.entry = NULL,
                         !.inspected = IF r # NULL THEN @ + 1 ELSE @])

\* new_entry(key, flags), then `cas` with the entry; called for the tail, it
\* is called from the body of the loop, which has inspected a node.  When AllocateHeap
\* returns NULL, `::new (p) MallocSiteHashtableEntry(key, flags)` is a
\* placement new on a null pointer, which is undefined: either the expression
\* yields NULL and the caller returns NULL, or the constructor writes through
\* the null pointer.
new_entry(t, cas) ==
    IF hash_entry_allocation_stack = NoStack
    THEN Undefined
    ELSE IF AllocateHeap = NULL
    THEN \/ /\ Set(t, [th[t] EXCEPT !.pc = "la_ret", !.ret = NULL, !.entry = NULL,
                                    !.oom = TRUE,
                                    !.inspected = IF cas = "la_cas_tail" THEN @ + 1 ELSE @])
            /\ UNCHANGED <<access_count, tableVars, hashVars, flagVars>>
         \/ /\ ub' = TRUE
            /\ th' = [u \in Threads |->
                        IF u = t THEN [Halted EXCEPT !.oom = TRUE] ELSE Halted]
            /\ UNCHANGED <<access_count, tableVars, hashVars, inits, excl_done,
                           vm_aborted>>
    ELSE /\ heap' = [heap EXCEPT ![AllocateHeap] = "live"]
         /\ site' = [site EXCEPT ![AllocateHeap] =
                       [stack |-> th[t].key, flags |-> th[t].flags]]
         /\ next' = [next EXCEPT ![AllocateHeap] = NULL]
         /\ Set(t, [th[t] EXCEPT !.pc = cas, !.entry = AllocateHeap,
                                 !.inspected = IF cas = "la_cas_tail" THEN @ + 1 ELSE @])
         /\ UNCHANGED <<access_count, table, hashVars, flagVars>>

(***************************************************************************)
(* MallocSiteTable::lookup_or_add, called by allocation_at under a shared  *)
(* lock                                                                    *)
(***************************************************************************)
allocation_at(t, key, flags) ==
    /\ UNCHANGED <<g1Vars, satbVars>>
    /\ th[t].pc = "idle"
    /\ inits > 0
    /\ sharedLock(t, [Idle EXCEPT !.pc = "la_check_head", !.key = key, !.flags = flags,
                                  !.index = hash_to_index(hash(key)), !.pos_idx = 0])
    /\ UNCHANGED <<tableVars, hashVars, flagVars>>

\* if (_table[index] == NULL) { entry = new_entry(key, flags); ...
la_check_head(t) ==
    /\ UNCHANGED <<g1Vars, satbVars>>
    /\ th[t].pc = "la_check_head"
    /\ IF table[th[t].index] = NULL
       THEN new_entry(t, "la_cas_head")
       ELSE /\ Set(t, [th[t] EXCEPT !.pc = "la_load_head"])
            /\ UNCHANGED <<access_count, tableVars, hashVars, flagVars>>

\* la_cas_head with a plain store in place of the compare-and-swap
la_cas_head_store(t) ==
    /\ UNCHANGED <<g1Vars, satbVars>>
    /\ th[t].pc = "la_cas_head"
    /\ table' = [table EXCEPT ![th[t].index] = th[t].entry]
    /\ Set(t, [th[t] EXCEPT !.pc = "la_ret", !.ret = th[t].entry,
                            !.entry = NULL, !.added = TRUE, !.head_cas = @ + 1])
    /\ UNCHANGED <<access_count, next, site, heap, hashVars, flagVars>>

\* if (Atomic::replace_if_null(entry, &_table[index])) return entry->data();
\* delete entry;
la_cas_head(t) ==
    /\ UNCHANGED <<g1Vars, satbVars>>
    /\ th[t].pc = "la_cas_head"
    /\ IF table[th[t].index] = NULL
       THEN /\ table' = [table EXCEPT ![th[t].index] = th[t].entry]
            /\ Set(t, [th[t] EXCEPT !.pc = "la_ret", !.ret = th[t].entry,
                                    !.entry = NULL, !.added = TRUE,
                                    !.head_cas = @ + 1])
            /\ UNCHANGED heap
       ELSE /\ heap' = [heap EXCEPT ![th[t].entry] = "deleted"]
            /\ Set(t, [th[t] EXCEPT !.pc = "la_load_head", !.entry = NULL,
                                    !.lost = @ \cup {th[t].entry},
                                    !.head_cas = @ + 1])
            /\ UNCHANGED table
    /\ UNCHANGED <<access_count, next, site, hashVars, flagVars>>

\* MallocSiteHashtableEntry* head = _table[index];
la_load_head(t) ==
    /\ UNCHANGED <<g1Vars, satbVars>>
    /\ th[t].pc = "la_load_head"
    /\ Set(t, [th[t] EXCEPT !.pc = "la_loop", !.head = table[th[t].index]])
    /\ UNCHANGED <<access_count, tableVars, hashVars, flagVars>>

\* the comparison without the flags
matches_stack_only(e, key, flags) == site[e].stack = key

\* site->flags() == flags && site->equals(key)
matches(e, key, flags) == site[e].flags = flags /\ site[e].stack = key

\* the loop test, the comparison and the test for the tail of the chain
la_loop(t) ==
    /\ UNCHANGED <<g1Vars, satbVars>>
    /\ th[t].pc = "la_loop"
    /\ IF th[t].head = NULL \/ th[t].pos_idx > MAX_BUCKET_LENGTH
       THEN /\ la_return(t, NULL)
            /\ UNCHANGED <<access_count, tableVars, hashVars, flagVars>>
       ELSE IF ~Valid(th[t].head)
       THEN Undefined
       ELSE IF matches(th[t].head, th[t].key, th[t].flags)
       THEN /\ la_return(t, th[t].head)
            /\ UNCHANGED <<access_count, tableVars, hashVars, flagVars>>
       ELSE IF next[th[t].head] = NULL /\ th[t].pos_idx < MAX_BUCKET_LENGTH
       THEN new_entry(t, "la_cas_tail")
       ELSE /\ Set(t, [th[t] EXCEPT !.pc = "la_advance", !.inspected = @ + 1])
            /\ UNCHANGED <<access_count, tableVars, hashVars, flagVars>>

\* MallocSiteHashtableEntry::atomic_insert
atomic_insert(e, entry) == next' = [next EXCEPT ![e] = entry]

\* la_cas_tail with a plain store in place of the compare-and-swap
la_cas_tail_store(t) ==
    /\ UNCHANGED <<g1Vars, satbVars>>
    /\ th[t].pc = "la_cas_tail"
    /\ IF ~Valid(th[t].head)
       THEN Undefined
       ELSE /\ atomic_insert(th[t].head, th[t].entry)
            /\ Set(t, [th[t] EXCEPT !.pc = "la_ret", !.ret = th[t].entry,
                                    !.entry = NULL, !.added = TRUE,
                                    !.pos_idx = @ + 1, !.tail_cas = @ + 1])
            /\ UNCHANGED <<access_count, table, site, heap, hashVars, flagVars>>

\* la_cas_tail that takes a lost compare-and-swap for an error
la_cas_tail_fail(t) ==
    /\ UNCHANGED <<g1Vars, satbVars>>
    /\ th[t].pc = "la_cas_tail"
    /\ IF ~Valid(th[t].head)
       THEN Undefined
       ELSE /\ IF next[th[t].head] = NULL
               THEN /\ atomic_insert(th[t].head, th[t].entry)
                    /\ Set(t, [th[t] EXCEPT !.pc = "la_ret", !.ret = th[t].entry,
                                            !.entry = NULL, !.added = TRUE,
                                            !.pos_idx = @ + 1, !.tail_cas = @ + 1])
                    /\ UNCHANGED heap
               ELSE /\ heap' = [heap EXCEPT ![th[t].entry] = "deleted"]
                    /\ Set(t, [th[t] EXCEPT !.pc = "la_ret", !.ret = NULL,
                                            !.entry = NULL,
                                            !.lost = @ \cup {th[t].entry},
                                            !.tail_cas = @ + 1])
                    /\ UNCHANGED next
            /\ UNCHANGED <<access_count, table, site, hashVars, flagVars>>

\* la_cas_tail that tries again at the same node until its entry is linked
la_cas_tail_spin(t) ==
    /\ UNCHANGED <<g1Vars, satbVars>>
    /\ th[t].pc = "la_cas_tail"
    /\ IF ~Valid(th[t].head)
       THEN Undefined
       ELSE /\ IF next[th[t].head] = NULL
               THEN /\ atomic_insert(th[t].head, th[t].entry)
                    /\ Set(t, [th[t] EXCEPT !.pc = "la_ret", !.ret = th[t].entry,
                                            !.entry = NULL, !.added = TRUE,
                                            !.pos_idx = @ + 1, !.tail_cas = @ + 1])
               ELSE /\ Set(t, [th[t] EXCEPT !.tail_cas = IF @ < 2 THEN @ + 1 ELSE @])
                    /\ UNCHANGED next
            /\ UNCHANGED <<access_count, table, site, heap, hashVars, flagVars>>

\* if (head->atomic_insert(entry)) { (*pos_idx)++; return entry->data(); }
\* delete entry;
la_cas_tail(t) ==
    /\ UNCHANGED <<g1Vars, satbVars>>
    /\ th[t].pc = "la_cas_tail"
    /\ IF ~Valid(th[t].head)
       THEN Undefined
       ELSE /\ IF next[th[t].head] = NULL
               THEN /\ atomic_insert(th[t].head, th[t].entry)
                    /\ Set(t, [th[t] EXCEPT !.pc = "la_ret", !.ret = th[t].entry,
                                            !.entry = NULL, !.added = TRUE,
                                            !.pos_idx = @ + 1, !.tail_cas = @ + 1])
                    /\ UNCHANGED heap
               ELSE /\ heap' = [heap EXCEPT ![th[t].entry] = "deleted"]
                    /\ Set(t, [th[t] EXCEPT !.pc = "la_advance", !.entry = NULL,
                                            !.lost = @ \cup {th[t].entry},
                                            !.tail_cas = @ + 1])
                    /\ UNCHANGED next
            /\ UNCHANGED <<access_count, table, site, hashVars, flagVars>>

\* la_advance that forgets (*pos_idx)++
la_advance_no_incr(t) ==
    /\ UNCHANGED <<g1Vars, satbVars>>
    /\ th[t].pc = "la_advance"
    /\ IF ~Valid(th[t].head)
       THEN Undefined
       ELSE /\ Set(t, [th[t] EXCEPT !.pc = "la_loop", !.head = next[th[t].head],
                                    !.tail_cas = 0])
            /\ UNCHANGED <<access_count, tableVars, hashVars, flagVars>>

\* head = head->next(); (*pos_idx)++;
la_advance(t) ==
    /\ UNCHANGED <<g1Vars, satbVars>>
    /\ th[t].pc = "la_advance"
    /\ IF ~Valid(th[t].head)
       THEN Undefined
       ELSE /\ Set(t, [th[t] EXCEPT !.pc = "la_loop", !.head = next[th[t].head],
                                    !.pos_idx = @ + 1, !.tail_cas = 0])
            /\ UNCHANGED <<access_count, tableVars, hashVars, flagVars>>

\* allocation_at returns: the AccessLock goes out of scope
allocation_at_return(t) ==
    /\ UNCHANGED <<g1Vars, satbVars>>
    /\ th[t].pc = "la_ret"
    /\ AccessLock_destroy(t)
    /\ Set(t, Idle)
    /\ UNCHANGED <<tableVars, hashVars, flagVars>>

(***************************************************************************)
(* MallocSiteTable::malloc_site                                            *)
(***************************************************************************)
\* for (index = 0; index < pos_idx && head != NULL; index++, head = head->next()) {}
RECURSIVE malloc_site_loop(_, _, _)
malloc_site_loop(head, index, pos_idx) ==
    IF index < pos_idx /\ head # NULL
    THEN malloc_site_loop(next[head], index + 1, pos_idx)
    ELSE head

\* malloc_site(bucket_idx, pos_idx): the entry whose site is returned; NULL
\* when the assertion head != NULL fails
malloc_site(bucket_idx, pos_idx) == malloc_site_loop(table[bucket_idx], 0, pos_idx)

(***************************************************************************)
(* MallocSiteTable::walk, called by walk_malloc_site under a shared lock   *)
(***************************************************************************)
walk_malloc_site(t) ==
    /\ UNCHANGED <<g1Vars, satbVars>>
    /\ th[t].pc = "idle"
    /\ inits > 0
    /\ sharedLock(t, [Idle EXCEPT !.pc = "wk_bucket", !.index = 0])
    /\ UNCHANGED <<tableVars, hashVars, flagVars>>

\* walk(walker) called without any lock
walk(t) ==
    /\ UNCHANGED <<g1Vars, satbVars>>
    /\ th[t].pc = "idle"
    /\ inits > 0
    /\ Set(t, [Idle EXCEPT !.pc = "wk_bucket", !.index = 0])
    /\ UNCHANGED <<access_count, tableVars, hashVars, flagVars>>

\* for (index = 0; index < table_size; index++) { head = _table[index]; ...
\* return true;
wk_bucket(t) ==
    /\ UNCHANGED <<g1Vars, satbVars>>
    /\ th[t].pc = "wk_bucket"
    /\ IF th[t].index < table_size
       THEN Set(t, [th[t] EXCEPT !.pc = "wk_visit", !.head = table[th[t].index]])
       ELSE Set(t, [th[t] EXCEPT !.pc = "wk_ret", !.res = "true"])
    /\ UNCHANGED <<access_count, tableVars, hashVars, flagVars>>

\* wk_visit that goes on when the walker answers false
wk_visit_no_stop(t, go_on) ==
    /\ UNCHANGED <<g1Vars, satbVars>>
    /\ th[t].pc = "wk_visit"
    /\ IF th[t].head = NULL
       THEN /\ go_on
            /\ Set(t, [th[t] EXCEPT !.pc = "wk_bucket", !.index = @ + 1])
            /\ UNCHANGED <<access_count, tableVars, hashVars, flagVars>>
       ELSE IF ~Valid(th[t].head)
       THEN go_on /\ Undefined
       ELSE /\ Set(t, [th[t] EXCEPT !.head = next[th[t].head],
                                    !.visited = Append(@, th[t].head),
                                    !.stopped = @ \/ ~go_on])
            /\ UNCHANGED <<access_count, tableVars, hashVars, flagVars>>

\* while (head != NULL) { if (!walker->do_malloc_site(head->peek())) return false;
\*                        head = head->next(); }
\* `go_on` is what the walker answers
wk_visit(t, go_on) ==
    /\ UNCHANGED <<g1Vars, satbVars>>
    /\ th[t].pc = "wk_visit"
    /\ IF th[t].head = NULL
       THEN /\ go_on
            /\ Set(t, [th[t] EXCEPT !.pc = "wk_bucket", !.index = @ + 1])
            /\ UNCHANGED <<access_count, tableVars, hashVars, flagVars>>
       ELSE IF ~Valid(th[t].head)
       THEN go_on /\ Undefined
       ELSE /\ IF go_on
               THEN Set(t, [th[t] EXCEPT !.head = next[th[t].head],
                                         !.visited = Append(@, th[t].head)])
               ELSE Set(t, [th[t] EXCEPT !.pc = "wk_ret", !.res = "false",
                                         !.visited = Append(@, th[t].head),
                                         !.stopped = TRUE])
            /\ UNCHANGED <<access_count, tableVars, hashVars, flagVars>>

\* walk_malloc_site returns: the AccessLock goes out of scope
walk_malloc_site_return(t) ==
    /\ UNCHANGED <<g1Vars, satbVars>>
    /\ th[t].pc = "wk_ret"
    /\ AccessLock_destroy(t)
    /\ Set(t, Idle)
    /\ UNCHANGED <<tableVars, hashVars, flagVars>>

(***************************************************************************)
(* MallocSiteTable::shutdown: AccessLock::exclusiveLock, then reset        *)
(***************************************************************************)
\* assert(_lock_state != ExclusiveLock); assert(*_lock >= 0);
shutdown(t) ==
    /\ UNCHANGED <<g1Vars, satbVars>>
    /\ th[t].pc = "idle"
    /\ inits > 0
    /\ IF access_count >= 0
       THEN /\ Set(t, [Idle EXCEPT !.pc = "el_read_val"])
            /\ UNCHANGED vm_aborted
       ELSE /\ th' = [u \in Threads |-> Halted]
            /\ vm_aborted' = TRUE
    /\ UNCHANGED <<access_count, tableVars, hashVars, inits, excl_done, ub>>

\* val = *_lock;
el_read_val(t) ==
    /\ UNCHANGED <<g1Vars, satbVars>>
    /\ th[t].pc = "el_read_val"
    /\ Set(t, [th[t] EXCEPT !.pc = "el_read_target", !.val = access_count])
    /\ UNCHANGED <<access_count, tableVars, hashVars, flagVars>>

\* target = _MAGIC_ + *_lock;
el_read_target(t) ==
    /\ UNCHANGED <<g1Vars, satbVars>>
    /\ th[t].pc = "el_read_target"
    /\ Set(t, [th[t] EXCEPT !.pc = "el_cas", !.target = Wrap(_MAGIC_ + access_count)])
    /\ UNCHANGED <<access_count, tableVars, hashVars, flagVars>>

\* while (Atomic::cmpxchg(target, _lock, val) != val);
el_cas(t) ==
    /\ UNCHANGED <<g1Vars, satbVars>>
    /\ th[t].pc = "el_cas"
    /\ IF access_count = th[t].val
       THEN /\ access_count' = th[t].target
            /\ excl_done' = TRUE
            /\ Set(t, [th[t] EXCEPT !.pc = "el_spin"])
       ELSE /\ Set(t, [th[t] EXCEPT !.pc = "el_read_val"])
            /\ UNCHANGED <<access_count, excl_done>>
    /\ UNCHANGED <<tableVars, hashVars, inits, ub, vm_aborted>>

\* while (*_lock != _MAGIC_) os::naked_yield();  _lock_state = ExclusiveLock;
el_spin(t) ==
    /\ UNCHANGED <<g1Vars, satbVars>>
    /\ th[t].pc = "el_spin"
    /\ access_count = _MAGIC_
    /\ Set(t, [th[t] EXCEPT !.pc = "rs_bucket", !.lock_state = "ExclusiveLock",
                            !.index = 0, !.val = 0, !.target = 0])
    /\ UNCHANGED <<access_count, tableVars, hashVars, flagVars>>

\* rs_bucket that forgets _table[index] = NULL
rs_bucket_keep(t) ==
    /\ UNCHANGED <<g1Vars, satbVars>>
    /\ th[t].pc = "rs_bucket"
    /\ IF th[t].index < table_size
       THEN /\ Set(t, [th[t] EXCEPT !.pc = "rs_delete", !.head = table[th[t].index]])
            /\ UNCHANGED <<access_count, hashVars>>
       ELSE /\ hash_entry_allocation_stack' = NoStack
            /\ hash_entry_allocation_site' = NULL
            /\ AccessLock_destroy(t)
            /\ Set(t, Idle)
    /\ UNCHANGED <<table, next, site, heap, flagVars>>

\* reset: for (index ...) { head = _table[index]; _table[index] = NULL; ... }
\*        _hash_entry_allocation_stack = NULL; _hash_entry_allocation_site = NULL;
\* and shutdown returns
rs_bucket(t) ==
    /\ UNCHANGED <<g1Vars, satbVars>>
    /\ th[t].pc = "rs_bucket"
    /\ IF th[t].index < table_size
       THEN /\ Set(t, [th[t] EXCEPT !.pc = "rs_delete", !.head = table[th[t].index]])
            /\ table' = [table EXCEPT ![th[t].index] = NULL]
            /\ UNCHANGED <<access_count, hashVars>>
       ELSE /\ hash_entry_allocation_stack' = NoStack
            /\ hash_entry_allocation_site' = NULL
            /\ AccessLock_destroy(t)
            /\ Set(t, Idle)
            /\ UNCHANGED table
    /\ UNCHANGED <<next, site, heap, flagVars>>

\* delete_linked_list that deletes every node of the list
rs_delete_all(t) ==
    /\ UNCHANGED <<g1Vars, satbVars>>
    /\ th[t].pc = "rs_delete"
    /\ IF th[t].head = NULL
       THEN /\ Set(t, [th[t] EXCEPT !.pc = "rs_bucket", !.index = @ + 1])
            /\ UNCHANGED <<access_count, tableVars, hashVars, flagVars>>
       ELSE IF ~Valid(th[t].head)
       THEN Undefined
       ELSE /\ Set(t, [th[t] EXCEPT !.head = next[th[t].head]])
            /\ heap' = [heap EXCEPT ![th[t].head] = "deleted"]
            /\ UNCHANGED <<access_count, table, next, site, hashVars, flagVars>>

\* delete_linked_list: while (head != NULL) { p = head; head = head->next();
\*                       if (p != hash_entry_allocation_site()) delete p; }
rs_delete(t) ==
    /\ UNCHANGED <<g1Vars, satbVars>>
    /\ th[t].pc = "rs_delete"
    /\ IF th[t].head = NULL
       THEN /\ Set(t, [th[t] EXCEPT !.pc = "rs_bucket", !.index = @ + 1])
            /\ UNCHANGED <<access_count, tableVars, hashVars, flagVars>>
       ELSE IF ~Valid(th[t].head)
       THEN Undefined
       ELSE /\ Set(t, [th[t] EXCEPT !.head = next[th[t].head]])
            /\ heap' = [heap EXCEPT ![th[t].head] =
                          IF th[t].head # hash_entry_allocation_site
                          THEN "deleted" ELSE @]
            /\ UNCHANGED <<access_count, table, next, site, hashVars, flagVars>>

(***************************************************************************)
(* The table's specification                                               *)
(***************************************************************************)
\* the steps of a thread inside lookup_or_add / allocation_at
lookup_steps(t) ==
    \/ la_check_head(t)
    \/ la_cas_head(t)
    \/ la_load_head(t)
    \/ la_loop(t)
    \/ la_cas_tail(t)
    \/ la_advance(t)
    \/ allocation_at_return(t)

\* the steps of a thread inside walk / walk_malloc_site
walk_steps(t) ==
    \/ wk_bucket(t)
    \/ \E go_on \in BOOLEAN : wk_visit(t, go_on)
    \/ walk_malloc_site_return(t)

\* the steps of a thread inside shutdown
shutdown_steps(t) ==
    \/ el_read_val(t)
    \/ el_read_target(t)
    \/ el_cas(t)
    \/ el_spin(t)
    \/ rs_bucket(t)
    \/ rs_delete(t)

\* Threads looking up and adding sites concurrently.
NextTable ==
    \/ initialize
    \/ \E t \in LookupThreads :
         \/ \E r \in Requests : allocation_at(t, r[1], r[2])
         \/ lookup_steps(t)

SpecTable == InitMST /\ [][NextTable]_vars

\* One thread shutting the table down while others walk it.
NextLock ==
    \/ initialize
    \/ \E t \in ShutdownThreads :
         \/ shutdown(t)
         \/ shutdown_steps(t)
    \/ \E t \in WalkThreads :
         \/ walk_malloc_site(t)
         \/ sharedLock_undo(t)
         \/ walk_steps(t)

SpecLock == InitMST /\ [][NextLock]_vars

\* One thread calling every operation of the table, one call after the other.
NextSeq ==
    \/ initialize
    \/ \E r \in Requests : allocation_at(1, r[1], r[2])
    \/ sharedLock_undo(1)
    \/ lookup_steps(1)
    \/ walk_malloc_site(1)
    \/ walk(1)
    \/ walk_steps(1)
    \/ shutdown(1)
    \/ shutdown_steps(1)

SpecSeq == InitMST /\ [][NextSeq]_vars

(***************************************************************************)
(* G1BarrierSet: the post-write barrier's slow path and invalidate         *)
(***************************************************************************)
\* MemRegion: the words start .. start + word_size - 1
is_empty(word_size) == word_size = 0
last(start, word_size) == start + word_size - 1

\* CardTable::byte_for: the card that covers a heap word
byte_for(p) == p \div CardWords

\* G1DirtyCardQueue::enqueue on the thread's own queue
enqueue(t, byte) == dcq' = [dcq EXCEPT ![t] = Append(@, byte)]

G1Set(t, r) == g1' = [g1 EXCEPT ![t] = r]

\* write_ref_field_post_slow(byte) is called: the caller has filtered young
\* cards (the assertion); OrderAccess::storeload()
write_ref_field_post_slow(t, byte) ==
    /\ UNCHANGED <<mstVars, satbVars>>
    /\ g1[t].pc = "idle"
    /\ cards[byte] # g1_young_card_val
    /\ G1Set(t, [G1Idle EXCEPT !.pc = "ps_test", !.byte = byte, !.fenced = TRUE])
    /\ UNCHANGED <<cards, dcq>>

\* ps_test that takes every card for not dirty
ps_test_always(t) ==
    /\ UNCHANGED <<mstVars, satbVars>>
    /\ g1[t].pc = "ps_test"
    /\ G1Set(t, [g1[t] EXCEPT !.pc = "ps_store"])
    /\ UNCHANGED <<cards, dcq>>

\* if (*byte != G1CardTable::dirty_card_val()) {
ps_test(t) ==
    /\ UNCHANGED <<mstVars, satbVars>>
    /\ g1[t].pc = "ps_test"
    /\ IF cards[g1[t].byte] # dirty_card_val
       THEN G1Set(t, [g1[t] EXCEPT !.pc = "ps_store"])
       ELSE G1Set(t, G1Idle)
    /\ UNCHANGED <<cards, dcq>>

\* *byte = dirty_card_val(); dirty_card_queue(thr).enqueue(byte); }
ps_store(t) ==
    /\ UNCHANGED <<mstVars, satbVars>>
    /\ g1[t].pc = "ps_store"
    /\ cards' = [cards EXCEPT ![g1[t].byte] = dirty_card_val]
    /\ enqueue(t, g1[t].byte)
    /\ G1Set(t, G1Idle)

\* invalidate(mr) is called; `before` and `queued` remember the card table and
\* the length of the thread's queue at the call
invalidate(t, start, word_size) ==
    /\ UNCHANGED <<mstVars, satbVars>>
    /\ g1[t].pc = "idle"
    /\ G1Set(t, [G1Idle EXCEPT !.pc = "inv_entry", !.start = start,
                               !.word_size = word_size, !.before = cards,
                               !.queued = Len(dcq[t])])
    /\ UNCHANGED <<cards, dcq>>

\* inv_entry without the test for an empty region
inv_entry_no_test(t) ==
    /\ UNCHANGED <<mstVars, satbVars>>
    /\ g1[t].pc = "inv_entry"
    /\ G1Set(t, [g1[t] EXCEPT !.pc = "inv_skip",
                    !.byte = byte_for(g1[t].start),
                    !.last_byte = byte_for(last(g1[t].start, g1[t].word_size))])
    /\ UNCHANGED <<cards, dcq>>

\* if (mr.is_empty()) return;
\* byte = byte_for(mr.start()); last_byte = byte_for(mr.last());
inv_entry(t) ==
    /\ UNCHANGED <<mstVars, satbVars>>
    /\ g1[t].pc = "inv_entry"
    /\ IF is_empty(g1[t].word_size)
       THEN G1Set(t, [g1[t] EXCEPT !.pc = "inv_done"])
       ELSE G1Set(t, [g1[t] EXCEPT !.pc = "inv_skip",
                        !.byte = byte_for(g1[t].start),
                        !.last_byte = byte_for(last(g1[t].start, g1[t].word_size))])
    /\ UNCHANGED <<cards, dcq>>

\* inv_skip that goes on to the loop without the fence
inv_skip_no_fence(t) ==
    /\ UNCHANGED <<mstVars, satbVars>>
    /\ g1[t].pc = "inv_skip"
    /\ IF g1[t].byte <= g1[t].last_byte
       THEN IF cards[g1[t].byte] = g1_young_card_val
            THEN G1Set(t, [g1[t] EXCEPT !.byte = @ + 1])
            ELSE G1Set(t, [g1[t] EXCEPT !.pc = "inv_loop"])
       ELSE G1Set(t, [g1[t] EXCEPT !.pc = "inv_done"])
    /\ UNCHANGED <<cards, dcq>>

\* for (; byte <= last_byte && *byte == g1_young_card_val(); byte++);
\* if (byte <= last_byte) { OrderAccess::storeload(); ...
inv_skip(t) ==
    /\ UNCHANGED <<mstVars, satbVars>>
    /\ g1[t].pc = "inv_skip"
    /\ IF g1[t].byte <= g1[t].last_byte
       THEN IF cards[g1[t].byte] = g1_young_card_val
            THEN G1Set(t, [g1[t] EXCEPT !.byte = @ + 1])
            ELSE G1Set(t, [g1[t] EXCEPT !.pc = "inv_loop", !.fenced = TRUE])
       ELSE G1Set(t, [g1[t] EXCEPT !.pc = "inv_done"])
    /\ UNCHANGED <<cards, dcq>>

\* inv_loop that filters dirty cards only
inv_loop_no_young(t) ==
    /\ UNCHANGED <<mstVars, satbVars>>
    /\ g1[t].pc = "inv_loop"
    /\ IF g1[t].byte <= g1[t].last_byte
       THEN IF cards[g1[t].byte] # dirty_card_val
            THEN G1Set(t, [g1[t] EXCEPT !.pc = "inv_store"])
            ELSE G1Set(t, [g1[t] EXCEPT !.byte = @ + 1])
       ELSE G1Set(t, [g1[t] EXCEPT !.pc = "inv_done"])
    /\ UNCHANGED <<cards, dcq>>

\* for (; byte <= last_byte; byte++) { bv = *byte;
\*   if (bv != g1_young_card_val() && bv != dirty_card_val()) {
inv_loop(t) ==
    /\ UNCHANGED <<mstVars, satbVars>>
    /\ g1[t].pc = "inv_loop"
    /\ IF g1[t].byte <= g1[t].last_byte
       THEN IF cards[g1[t].byte] # g1_young_card_val
               /\ cards[g1[t].byte] # dirty_card_val
            THEN G1Set(t, [g1[t] EXCEPT !.pc = "inv_store"])
            ELSE G1Set(t, [g1[t] EXCEPT !.byte = @ + 1])
       ELSE G1Set(t, [g1[t] EXCEPT !.pc = "inv_done"])
    /\ UNCHANGED <<cards, dcq>>

\* *byte = dirty_card_val(); queue.enqueue(byte); } }
inv_store(t) ==
    /\ UNCHANGED <<mstVars, satbVars>>
    /\ g1[t].pc = "inv_store"
    /\ cards' = [cards EXCEPT ![g1[t].byte] = dirty_card_val]
    /\ enqueue(t, g1[t].byte)
    /\ G1Set(t, [g1[t] EXCEPT !.pc = "inv_loop", !.byte = @ + 1])

\* invalidate returns
inv_return(t) ==
    /\ UNCHANGED <<mstVars, satbVars>>
    /\ g1[t].pc = "inv_done"
    /\ G1Set(t, G1Idle)
    /\ UNCHANGED <<cards, dcq>>

\* the memory regions of the heap, the empty ones among them
Regions == {r \in (0..(HeapWords - 1)) \X (0..HeapWords) : r[1] + r[2] <= HeapWords}

\* The barrier set with any card table, before any card is enqueued.
InitG1 ==
    /\ MSTRest
    /\ SATBRest
    /\ cards \in [Cards -> CardValues]
    /\ dcq = [t \in Threads |-> <<>>]
    /\ g1 = [t \in Threads |-> G1Idle]

g1_steps(t) ==
    \/ \E byte \in Cards : write_ref_field_post_slow(t, byte)
    \/ ps_test(t)
    \/ ps_store(t)
    \/ \E r \in Regions : invalidate(t, r[1], r[2])
    \/ inv_entry(t)
    \/ inv_skip(t)
    \/ inv_loop(t)
    \/ inv_store(t)
    \/ inv_return(t)

\* Threads running the barriers concurrently.
G1Threads == {1, 2}

NextG1 == \E t \in G1Threads : g1_steps(t)

SpecG1 == InitG1 /\ [][NextG1]_vars

\* One thread running the barriers.
NextG1Single == g1_steps(1)

SpecG1Single == InitG1 /\ [][NextG1Single]_vars

\* the steps of a thread inside invalidate, and inside the slow path
invalidate_steps(t) ==
    \/ \E r \in Regions : invalidate(t, r[1], r[2])
    \/ inv_entry(t)
    \/ inv_skip(t)
    \/ inv_loop(t)
    \/ inv_store(t)
    \/ inv_return(t)

slow_path_steps(t) ==
    \/ \E byte \in Cards : write_ref_field_post_slow(t, byte)
    \/ ps_test(t)
    \/ ps_store(t)

\* One thread calling invalidate while another runs the slow path of the
\* post-write barrier.
NextG1Pair ==
    \/ invalidate_steps(1)
    \/ slow_path_steps(2)

SpecG1Pair == InitG1 /\ [][NextG1Pair]_vars

(***************************************************************************)
(* G1BarrierSet: the SATB pre-write barrier and the thread life cycle      *)
(***************************************************************************)
Oops == 1..NumOops

\* the contents of a destination array of count slots: every slot holds an
\* oop or NULL
Arrays(count) == [1..count -> Oops \cup {NULL}]

SBSet(t, r) == sb' = [sb EXCEPT ![t] = r]

\* the thread exists, is outside every call and can run code of its own
Running(t) ==
    /\ life[t] \in {"created", "attached"}
    /\ sb[t].pc = "idle"
    /\ g1[t].pc = "idle"

RECURSIVE SumLen(_, _)
SumLen(q, T) == IF T = {} THEN 0
                ELSE LET t == CHOOSE x \in T : TRUE
                     IN Len(q[t]) + SumLen(q, T \ {t})

\* the entries in all SATB queues and in the queue set
SATBTotal == Len(satb_qset) + SumLen(satb, Threads)

\* SATBMarkQueue::enqueue on the thread's own queue: an inactive queue
\* ignores the reference
satb_enqueue(t, pre_val) ==
    satb' = [satb EXCEPT ![t] = IF satb_active[t] THEN Append(@, pre_val) ELSE @]

\* on_thread_create that leaves the flags of the queues as it finds them
on_thread_create_keep(t) ==
    /\ UNCHANGED mstVars
    /\ life[t] = "none"
    /\ life' = [life EXCEPT ![t] = "created"]
    /\ satb' = [satb EXCEPT ![t] = <<>>]
    /\ dcq' = [dcq EXCEPT ![t] = <<>>]
    /\ UNCHANGED <<cards, g1, satb_set_active, satb_active, satb_qset, dcq_qset,
                   dcq_active, sb>>

\* G1ThreadLocalData::create(thread): an inactive, empty SATB queue and an
\* active, empty dirty card queue
on_thread_create(t) ==
    /\ UNCHANGED mstVars
    /\ life[t] = "none"
    /\ life' = [life EXCEPT ![t] = "created"]
    /\ satb' = [satb EXCEPT ![t] = <<>>]
    /\ satb_active' = [satb_active EXCEPT ![t] = FALSE]
    /\ dcq' = [dcq EXCEPT ![t] = <<>>]
    /\ dcq_active' = [dcq_active EXCEPT ![t] = TRUE]
    /\ UNCHANGED <<cards, g1, satb_set_active, satb_qset, dcq_qset, sb>>

\* G1ThreadLocalData::destroy(thread)
on_thread_destroy(t) ==
    /\ UNCHANGED mstVars
    /\ life[t] = "detached"
    /\ life' = [life EXCEPT ![t] = "none"]
    /\ UNCHANGED <<g1Vars, satb_set_active, satb_active, satb, satb_qset, dcq_qset,
                   dcq_active, sb>>

\* on_thread_attach that takes the queue set's flag for its opposite
on_thread_attach_negated(t) ==
    /\ UNCHANGED mstVars
    /\ life[t] = "created"
    /\ Running(t)
    /\ ~satb_active[t]
    /\ satb[t] = <<>>
    /\ SBSet(t, [SBIdle EXCEPT !.pc = "att_set", !.is_satb_active = ~satb_set_active])
    /\ UNCHANGED <<g1Vars, satb_set_active, satb_active, satb, satb_qset, dcq_qset,
                   dcq_active, life>>

\* on_thread_attach(thread): the assertions hold (the SATB queue is inactive
\* and empty); bool is_satb_active = _satb_mark_queue_set.is_active();
on_thread_attach(t) ==
    /\ UNCHANGED mstVars
    /\ life[t] = "created"
    /\ Running(t)
    /\ ~satb_active[t]
    /\ satb[t] = <<>>
    /\ SBSet(t, [SBIdle EXCEPT !.pc = "att_set", !.is_satb_active = satb_set_active])
    /\ UNCHANGED <<g1Vars, satb_set_active, satb_active, satb, satb_qset, dcq_qset,
                   dcq_active, life>>

\* on_thread_attach that leaves the queue as on_thread_create made it
att_set_inactive(t) ==
    /\ UNCHANGED mstVars
    /\ sb[t].pc = "att_set"
    /\ SBSet(t, [sb[t] EXCEPT !.pc = "att_done"])
    /\ UNCHANGED <<g1Vars, satb_set_active, satb_active, satb, satb_qset, dcq_qset,
                   dcq_active, life>>

\* satb_mark_queue(thread).set_active(is_satb_active);
att_set(t) ==
    /\ UNCHANGED mstVars
    /\ sb[t].pc = "att_set"
    /\ satb_active' = [satb_active EXCEPT ![t] = sb[t].is_satb_active]
    /\ SBSet(t, [sb[t] EXCEPT !.pc = "att_done"])
    /\ UNCHANGED <<g1Vars, satb_set_active, satb, satb_qset, dcq_qset,
                   dcq_active, life>>

\* on_thread_attach returns; the thread is added to the threads list
att_return(t) ==
    /\ UNCHANGED mstVars
    /\ sb[t].pc = "att_done"
    /\ life' = [life EXCEPT ![t] = "attached"]
    /\ SBSet(t, SBIdle)
    /\ UNCHANGED <<g1Vars, satb_set_active, satb_active, satb, satb_qset, dcq_qset,
                   dcq_active>>

\* on_thread_detach(thread) is called; CardTableBarrierSet::on_thread_detach
\* has no deferred card mark to flush; before_satb and before_dcq remember
\* the thread's queues at the call
on_thread_detach(t) ==
    /\ UNCHANGED mstVars
    /\ life[t] = "attached"
    /\ Running(t)
    /\ SBSet(t, [SBIdle EXCEPT !.pc = "det_satb", !.before_satb = satb[t],
                               !.before_dcq = dcq[t]])
    /\ UNCHANGED <<g1Vars, satb_set_active, satb_active, satb, satb_qset, dcq_qset,
                   dcq_active, life>>

\* satb_mark_queue(thread).flush();
det_satb(t) ==
    /\ UNCHANGED mstVars
    /\ sb[t].pc = "det_satb"
    /\ satb_qset' = satb_qset \o satb[t]
    /\ satb' = [satb EXCEPT ![t] = <<>>]
    /\ SBSet(t, [sb[t] EXCEPT !.pc = "det_dcq"])
    /\ UNCHANGED <<g1Vars, satb_set_active, satb_active, dcq_qset, dcq_active, life>>

\* on_thread_detach without the flush of the dirty card queue
det_dcq_skip(t) ==
    /\ UNCHANGED mstVars
    /\ sb[t].pc = "det_dcq"
    /\ SBSet(t, [sb[t] EXCEPT !.pc = "det_done"])
    /\ UNCHANGED <<g1Vars, satb_set_active, satb_active, satb, satb_qset, dcq_qset,
                   dcq_active, life>>

\* dirty_card_queue(thread).flush();
det_dcq(t) ==
    /\ UNCHANGED mstVars
    /\ sb[t].pc = "det_dcq"
    /\ dcq_qset' = dcq_qset \o dcq[t]
    /\ dcq' = [dcq EXCEPT ![t] = <<>>]
    /\ SBSet(t, [sb[t] EXCEPT !.pc = "det_done"])
    /\ UNCHANGED <<cards, g1, satb_set_active, satb_active, satb, satb_qset,
                   dcq_active, life>>

\* on_thread_detach returns; the thread leaves the threads list
det_return(t) ==
    /\ UNCHANGED mstVars
    /\ sb[t].pc = "det_done"
    /\ life' = [life EXCEPT ![t] = "detached"]
    /\ SBSet(t, SBIdle)
    /\ UNCHANGED <<g1Vars, satb_set_active, satb_active, satb, satb_qset, dcq_qset,
                   dcq_active>>

\* The marking phase controller starts or ends a marking cycle at a
\* safepoint: no thread is inside a barrier or a life cycle hook; the flag of
\* the queue set and of every thread on the threads list is set.
set_active_all_threads(active) ==
    /\ UNCHANGED mstVars
    /\ satb_set_active # active
    /\ \A t \in Threads : sb[t].pc = "idle" /\ g1[t].pc = "idle"
    /\ satb_set_active' = active
    /\ satb_active' = [t \in Threads |->
                         IF life[t] = "attached" THEN active ELSE satb_active[t]]
    /\ UNCHANGED <<g1Vars, satb, satb_qset, dcq_qset,
                   dcq_active, life, sb>>

\* enqueue that appends whether or not the queue is active
G1BarrierSet_enqueue_always(t, pre_val) ==
    /\ UNCHANGED mstVars
    /\ Running(t)
    /\ pre_val \in Oops
    /\ SATBTotal < MaxSATB
    /\ satb' = [satb EXCEPT ![t] = Append(@, pre_val)]
    /\ UNCHANGED <<g1Vars, satb_set_active, satb_active, satb_qset, dcq_qset,
                   dcq_active, life, sb>>

\* enqueue(pre_val): assert(oopDesc::is_oop(pre_val, true));
\* satb_mark_queue(Thread::current()).enqueue(pre_val);
G1BarrierSet_enqueue(t, pre_val) ==
    /\ UNCHANGED mstVars
    /\ Running(t)
    /\ pre_val \in Oops
    /\ SATBTotal < MaxSATB
    /\ satb_enqueue(t, pre_val)
    /\ UNCHANGED <<g1Vars, satb_set_active, satb_active, satb_qset, dcq_qset,
                   dcq_active, life, sb>>

\* write_ref_array_pre(dst, count, dest_uninitialized):
\* if (!dest_uninitialized) write_ref_array_pre_work(dst, count);
write_ref_array_pre(t, dst, count, dest_uninitialized) ==
    /\ UNCHANGED mstVars
    /\ Running(t)
    /\ SATBTotal + count <= MaxSATB
    /\ SBSet(t, [SBIdle EXCEPT
                   !.pc = IF dest_uninitialized THEN "wp_done" ELSE "wp_work",
                   !.dst = dst, !.count = count,
                   !.dest_uninitialized = dest_uninitialized,
                   !.queued = Len(satb[t])])
    /\ UNCHANGED <<g1Vars, satb_set_active, satb_active, satb, satb_qset, dcq_qset,
                   dcq_active, life>>

\* write_ref_array_pre_work: if (!_satb_mark_queue_set.is_active()) return;
write_ref_array_pre_work(t) ==
    /\ UNCHANGED mstVars
    /\ sb[t].pc = "wp_work"
    /\ SBSet(t, [sb[t] EXCEPT !.pc = IF satb_set_active THEN "wp_loop" ELSE "wp_done"])
    /\ UNCHANGED <<g1Vars, satb_set_active, satb_active, satb, satb_qset, dcq_qset,
                   dcq_active, life>>

\* wp_loop that enqueues the slots it finds null as well
wp_loop_all(t) ==
    /\ UNCHANGED mstVars
    /\ sb[t].pc = "wp_loop"
    /\ IF sb[t].i < sb[t].count
       THEN /\ satb_enqueue(t, sb[t].dst[sb[t].i + 1])
            /\ SBSet(t, [sb[t] EXCEPT !.i = @ + 1,
                                      !.calls = Append(@, sb[t].dst[sb[t].i + 1])])
       ELSE /\ SBSet(t, [sb[t] EXCEPT !.pc = "wp_done"])
            /\ UNCHANGED satb
    /\ UNCHANGED <<g1Vars, satb_set_active, satb_active, satb_qset, dcq_qset,
                   dcq_active, life>>

\* for (size_t i = 0; i < count; i++, elem_ptr++) {
\*   T heap_oop = RawAccess<>::oop_load(elem_ptr);
\*   if (!CompressedOops::is_null(heap_oop)) enqueue(decode_not_null(heap_oop)); }
\* calls remembers the arguments of the enqueue calls
wp_loop(t) ==
    /\ UNCHANGED mstVars
    /\ sb[t].pc = "wp_loop"
    /\ IF sb[t].i < sb[t].count
       THEN LET heap_oop == sb[t].dst[sb[t].i + 1]
            IN IF heap_oop # NULL
               THEN /\ satb_enqueue(t, heap_oop)
                    /\ SBSet(t, [sb[t] EXCEPT !.i = @ + 1,
                                              !.calls = Append(@, heap_oop)])
               ELSE /\ SBSet(t, [sb[t] EXCEPT !.i = @ + 1])
                    /\ UNCHANGED satb
       ELSE /\ SBSet(t, [sb[t] EXCEPT !.pc = "wp_done"])
            /\ UNCHANGED satb
    /\ UNCHANGED <<g1Vars, satb_set_active, satb_active, satb_qset, dcq_qset,
                   dcq_active, life>>

\* write_ref_array_pre returns
wp_return(t) ==
    /\ UNCHANGED mstVars
    /\ sb[t].pc = "wp_done"
    /\ SBSet(t, SBIdle)
    /\ UNCHANGED <<g1Vars, satb_set_active, satb_active, satb, satb_qset, dcq_qset,
                   dcq_active, life>>

\* a running thread takes the slow path of the post-write barrier
post_barrier(t, byte) ==
    /\ Running(t)
    /\ write_ref_field_post_slow(t, byte)

life_steps(t) ==
    \/ on_thread_create(t)
    \/ on_thread_attach(t)
    \/ att_set(t)
    \/ att_return(t)
    \/ on_thread_detach(t)
    \/ det_satb(t)
    \/ det_dcq(t)
    \/ det_return(t)
    \/ on_thread_destroy(t)
    \/ \E pre_val \in Oops : G1BarrierSet_enqueue(t, pre_val)

post_steps(t) ==
    \/ \E byte \in Cards : post_barrier(t, byte)
    \/ ps_test(t)
    \/ ps_store(t)

array_steps(t) ==
    \/ \E count \in 0..MaxCount, dest_uninitialized \in BOOLEAN :
       \E dst \in Arrays(count) :
         write_ref_array_pre(t, dst, count, dest_uninitialized)
    \/ write_ref_array_pre_work(t)
    \/ wp_loop(t)
    \/ wp_return(t)

\* Threads that are created, attached and detached, and run the pre-write
\* barrier, while marking cycles start and end.
SATBThreads == {1, 2}

NextSATB ==
    \/ \E active \in BOOLEAN : set_active_all_threads(active)
    \/ \E t \in SATBThreads : life_steps(t)

SpecSATB == InitMST /\ [][NextSATB]_vars

\* One thread that also runs the array pre-write barrier and the slow path
\* of the post-write barrier.
NextPre ==
    \/ \E active \in BOOLEAN : set_active_all_threads(active)
    \/ life_steps(1)
    \/ post_steps(1)
    \/ array_steps(1)

SpecPre == InitMST /\ [][NextPre]_vars

(***************************************************************************)
(* What the table holds                                                    *)
(***************************************************************************)
\* the entries reached from e through at most n next pointers, in order
RECURSIVE ChainFrom(_, _)
ChainFrom(e, n) ==
    IF e = NULL \/ n = 0 THEN <<>> ELSE <<e>> \o ChainFrom(next[e], n - 1)

\* the chain of bucket i
Chain(i) == ChainFrom(table[i], Cardinality(Entries))

Range(q) == {q[k] : k \in 1..Len(q)}

\* the entries linked into the table
Linked == UNION {Range(Chain(i)) : i \in 0..(table_size - 1)}

\* how often x occurs in the sequence q
Occurrences(q, x) == Cardinality({k \in 1..Len(q) : q[k] = x})

(***************************************************************************)
(* C1: exclusive and shared access are mutually exclusive: exclusiveLock() *)
(* has not returned for one thread while another thread holds a shared     *)
(* lock it acquired with sharedLock().                                     *)
(***************************************************************************)
C1_MutualExclusion ==
    \A t, u \in Threads :
        ~(th[t].lock_state = "ExclusiveLock" /\ th[u].lock_state = "SharedLock")

(***************************************************************************)
(* C2: concurrent lookup_or_add calls with the same (stack, flags) link at *)
(* most one entry for the pair, and every call that returns a site returns *)
(* that entry: no two linked entries have equal stack and flags, and a     *)
(* returned site is linked and is the pair's.                              *)
(***************************************************************************)
C2_OneSitePerKey ==
    /\ \A a, b \in Linked : a # b => site[a] # site[b]
    /\ \A i \in 0..(table_size - 1), e \in Entries : Occurrences(Chain(i), e) <= 1
    /\ \A t \in Threads :
         th[t].pc = "la_ret" /\ th[t].ret # NULL =>
            /\ th[t].ret \in Linked
            /\ matches(th[t].ret, th[t].key, th[t].flags)

\* two calls with the same stack and flags raced: one linked the entry, the
\* other lost the compare-and-swap, discarded its own, and both return it
C2_Witness ==
    /\ th[1].pc = "la_ret" /\ th[2].pc = "la_ret"
    /\ th[1].key = th[2].key /\ th[1].flags = th[2].flags
    /\ th[1].ret # NULL /\ th[1].ret = th[2].ret
    /\ th[1].added /\ ~th[2].added
    /\ \E e \in HeapEntries : heap[e] = "deleted" /\ site[e] = site[th[1].ret]

(***************************************************************************)
(* C3: threads running the post-write slow path concurrently on one card   *)
(* enqueue the card exactly once: no card is in the dirty card queues more *)
(* than once, and a card that is queued is dirty.                          *)
(***************************************************************************)
\* how often a card is enqueued, over all threads' queues
Enqueued(c) == LET RECURSIVE Sum(_)
                   Sum(T) == IF T = {} THEN 0
                             ELSE LET t == CHOOSE x \in T : TRUE
                                  IN Occurrences(dcq[t], c) + Sum(T \ {t})
               IN Sum(Threads)

C3_EnqueuedOnce ==
    \A c \in Cards : Enqueued(c) <= 1 /\ (Enqueued(c) = 1 => cards[c] = dirty_card_val)

(***************************************************************************)
(* C4: when a bucket holds MAX_BUCKET_LENGTH entries with distinct stacks, *)
(* lookup_or_add with a new stack of that bucket returns NULL and adds no  *)
(* entry: a call never links its entry behind MAX_BUCKET_LENGTH or more    *)
(* entries of distinct stacks, none of them the call's.                    *)
(***************************************************************************)
\* the place of entry e in the sequence q
PosIn(q, e) == CHOOSE k \in 1..Len(q) : q[k] = e

\* the entries of its bucket in front of the linked entry e
InFront(e, i) == SubSeq(Chain(i), 1, PosIn(Chain(i), e) - 1)

DistinctStacks(q) == \A j, k \in 1..Len(q) : j # k => site[q[j]].stack # site[q[k]].stack

C4_OverflowReturnsNull ==
    \A t \in Threads :
        th[t].pc = "la_ret" /\ th[t].added /\ th[t].ret \in Range(Chain(th[t].index)) =>
            LET front == InFront(th[t].ret, th[t].index)
            IN ~(/\ Len(front) >= MAX_BUCKET_LENGTH
                 /\ DistinctStacks(front)
                 /\ \A k \in 1..Len(front) : site[front[k]].stack # th[t].key)

(***************************************************************************)
(* C5: sharedLock() never blocks; called while the access counter is not   *)
(* negative and no exclusive lock is pending it succeeds, called after an  *)
(* exclusiveLock() has made the counter negative it fails, and             *)
(* walk_malloc_site then returns false without visiting an entry.          *)
(***************************************************************************)
C5_SharedLockOutcome ==
    [][\A t \in Threads :
         th[t].pc = "idle" /\ th'[t].pc \in {"wk_bucket", "sl_undo"} =>
            /\ access_count >= 0 /\ ~excl_done => th'[t].pc = "wk_bucket"
            /\ excl_done => th'[t].pc = "sl_undo" /\ th'[t].visited = <<>>]_vars

(***************************************************************************)
(* C6: if every thread that holds a shared lock releases it, exclusiveLock *)
(* returns: once no other thread is inside a call, the counter reads       *)
(* _MAGIC_ and the spin loop of exclusiveLock can exit.                    *)
(***************************************************************************)
C6_SpinLoopExits ==
    \A t \in Threads :
        th[t].pc = "el_spin" /\ (\A u \in Threads \ {t} : th[u].pc = "idle") =>
            access_count = _MAGIC_

(***************************************************************************)
(* C7: after reset() has run with no concurrent reader, every bucket of    *)
(* the table is empty and walk() visits no entry and returns true.         *)
(***************************************************************************)
\* reset() has run and initialize() has not run since
AfterReset ==
    /\ inits > 0
    /\ hash_entry_allocation_site = NULL
    /\ \A t \in Threads : th[t].pc \notin {"rs_bucket", "rs_delete"}

C7_ResetEmptiesTable ==
    AfterReset =>
        /\ \A i \in 0..(table_size - 1) : table[i] = NULL
        /\ \A t \in Threads :
             /\ th[t].pc \in {"wk_bucket", "wk_visit", "wk_ret"} => th[t].visited = <<>>
             /\ th[t].pc = "wk_ret" => th[t].res = "true"

\* walk() has returned after a reset that deleted an entry
C7_Witness ==
    /\ AfterReset
    /\ \E t \in Threads : th[t].pc = "wk_ret"
    /\ \E e \in HeapEntries : heap[e] = "deleted"

(***************************************************************************)
(* C8: reset() only runs under exclusive access: the reset() of shutdown() *)
(* is never clearing buckets or deleting entries while another thread is   *)
(* inside the walk() of walk_malloc_site.                                  *)
(***************************************************************************)
C8_ResetExcludesWalk ==
    \A t, u \in Threads :
        ~(/\ th[t].pc \in {"rs_bucket", "rs_delete"}
          /\ th[u].pc \in {"wk_bucket", "wk_visit"}
          /\ th[u].lock_state = "SharedLock")

(***************************************************************************)
(* C9: invalidate of an empty region enqueues nothing and changes no card: *)
(* no step of a thread inside such a call changes the card table or a      *)
(* dirty card queue, and the call returns from its first test.             *)
(***************************************************************************)
InInvalidate(r) == r.pc \in {"inv_entry", "inv_skip", "inv_loop", "inv_store", "inv_done"}

C9_EmptyInvalidate ==
    [][\A t \in Threads :
         /\ g1'[t] # g1[t]
         /\ \/ InInvalidate(g1[t]) /\ g1[t].word_size = 0
            \/ InInvalidate(g1'[t]) /\ g1'[t].word_size = 0
         => /\ cards' = cards
            /\ dcq' = dcq
            /\ g1'[t].pc \in {"inv_entry", "inv_done", "idle"}]_vars

\* invalidate of an empty region that starts inside a clean card has returned
C9_Witness ==
    \E t \in Threads :
        /\ g1[t].pc = "inv_done"
        /\ g1[t].word_size = 0
        /\ g1[t].start % CardWords # 0
        /\ cards[byte_for(g1[t].start)] = clean_card_val

(***************************************************************************)
(* C10: a single-threaded invalidate of a non-empty region marks dirty and *)
(* enqueues, once each and in ascending order on the thread's queue, the   *)
(* cards of the region that were neither young nor dirty; young and dirty  *)
(* cards of the region and the cards outside keep their value; afterwards  *)
(* every card of the region is young or dirty.                             *)
(***************************************************************************)
\* the cards lo..hi that satisfy P, in ascending order
RECURSIVE Ascending(_, _, _)
Ascending(lo, hi, S) ==
    IF lo > hi THEN <<>>
    ELSE (IF lo \in S THEN <<lo>> ELSE <<>>) \o Ascending(lo + 1, hi, S)

C10_Invalidate ==
    \A t \in Threads :
        g1[t].pc = "inv_done" /\ g1[t].word_size > 0 =>
            LET lo == byte_for(g1[t].start)
                hi == byte_for(g1[t].start + g1[t].word_size - 1)
                toMark == {c \in lo..hi :
                             g1[t].before[c] \notin {g1_young_card_val, dirty_card_val}}
            IN /\ SubSeq(dcq[t], g1[t].queued + 1, Len(dcq[t])) = Ascending(lo, hi, toMark)
               /\ \A c \in Cards :
                    cards[c] = IF c \in toMark THEN dirty_card_val ELSE g1[t].before[c]
               /\ \A c \in lo..hi : cards[c] \in {g1_young_card_val, dirty_card_val}

\* invalidate of a region of two cards, a young one after one it marked
C10_Witness ==
    \E t \in Threads :
        /\ g1[t].pc = "inv_done"
        /\ byte_for(g1[t].start) < byte_for(g1[t].start + g1[t].word_size - 1)
        /\ g1[t].before[byte_for(g1[t].start)] = clean_card_val
        /\ cards[byte_for(g1[t].start)] = dirty_card_val
        /\ cards[byte_for(g1[t].start) + 1] = g1_young_card_val

(***************************************************************************)
(* C11: the post-write slow path on a card that is already dirty is a      *)
(* no-op: a dirty card stays dirty under every step, the call and its test *)
(* of a dirty card change no card and no dirty card queue, and the call    *)
(* returns from the test without storing or enqueueing.                    *)
(***************************************************************************)
C11_DirtyCardNoOp ==
    [][/\ \A c \in Cards : cards[c] = dirty_card_val => cards'[c] = dirty_card_val
       /\ \A t \in Threads :
            /\ g1[t].pc = "idle" /\ g1'[t].pc = "ps_test" =>
                  cards' = cards /\ dcq' = dcq
            /\ g1[t].pc = "ps_test" /\ g1'[t] # g1[t]
                  /\ cards[g1[t].byte] = dirty_card_val =>
                  cards' = cards /\ dcq' = dcq /\ g1'[t].pc = "idle"]_vars

\* the slow path is about to test a card that the thread dirtied and enqueued
\* in an earlier call
C11_Witness ==
    \E t \in Threads :
        /\ g1[t].pc = "ps_test"
        /\ cards[g1[t].byte] = dirty_card_val
        /\ Occurrences(dcq[t], g1[t].byte) = 1

(***************************************************************************)
(* C12: enqueue(pre_val) appends the reference to the SATB queue of the    *)
(* calling thread only, and only while marking is active: in every step in *)
(* which a SATB queue grows, the marking flag of the queue set is set, the *)
(* queue is that of a thread running its own code, it grows by one oop at  *)
(* its end and no other thread's queue changes; and the queue of a running *)
(* thread is active only while marking is active.                          *)
(***************************************************************************)
C12_EnqueueOwnQueueWhileMarking ==
    [][/\ \A t \in Threads :
            Len(satb'[t]) > Len(satb[t]) =>
               /\ satb_set_active /\ satb_set_active'
               /\ Running(t)
               /\ \E pre_val \in Oops : satb'[t] = Append(satb[t], pre_val)
               /\ \A u \in Threads \ {t} : satb'[u] = satb[u]
       /\ \A t \in Threads :
            life[t] \in {"created", "attached"} /\ satb_active[t] => satb_set_active]_vars

\* during a marking cycle a thread has enqueued a reference while the other
\* attached thread's active queue stayed empty
C12_Witness ==
    /\ satb_set_active
    /\ satb[1] # <<>>
    /\ life[2] = "attached" /\ satb_active[2] /\ satb[2] = <<>>
    /\ satb_qset = <<>>

(***************************************************************************)
(* C13: write_ref_array_pre enqueues nothing when dest_uninitialized is    *)
(* true or marking is not active; otherwise it calls enqueue once for each *)
(* non-null slot of dst[0..count), in slot order, and never with a null.   *)
(* The thread's SATB queue grows by exactly these references when it is    *)
(* active, and no queue ever holds a null.                                 *)
(***************************************************************************)
\* the non-null values of the first count slots, in slot order
NonNull(dst, count) == SelectSeq(SubSeq(dst, 1, count), LAMBDA v : v # NULL)

C13_ArrayPreBarrier ==
    \A t \in Threads :
        /\ NULL \notin Range(satb[t])
        /\ sb[t].pc = "wp_done" =>
             /\ sb[t].calls =
                  IF sb[t].dest_uninitialized \/ ~satb_set_active THEN <<>>
                  ELSE NonNull(sb[t].dst, sb[t].count)
             /\ SubSeq(satb[t], sb[t].queued + 1, Len(satb[t])) =
                  IF satb_active[t] THEN sb[t].calls ELSE <<>>

\* during marking the barrier has skipped a null slot and enqueued the
\* reference in the slot after it
C13_Witness ==
    \E t \in Threads :
        /\ sb[t].pc = "wp_done"
        /\ ~sb[t].dest_uninitialized
        /\ sb[t].count = 2
        /\ sb[t].dst[1] = NULL /\ sb[t].dst[2] # NULL
        /\ Len(satb[t]) = sb[t].queued + 1
        /\ satb[t][Len(satb[t])] = sb[t].dst[2]

(***************************************************************************)
(* C14: on_thread_attach sets the active flag of the thread's SATB queue   *)
(* to the marking flag of the queue set: when it has set the flag and      *)
(* while the thread is attached, the two are equal; before, the queue of a *)
(* created thread is inactive.                                             *)
(***************************************************************************)
C14_AttachCopiesMarkingFlag ==
    \A t \in Threads :
        /\ sb[t].pc = "att_done" => satb_active[t] = satb_set_active
        /\ life[t] = "attached" => satb_active[t] = satb_set_active
        /\ life[t] = "created" /\ sb[t].pc # "att_done" => ~satb_active[t]

\* a thread has been attached during a marking cycle and its queue is active
C14_Witness ==
    \E t \in Threads :
        /\ sb[t].pc = "att_done"
        /\ sb[t].is_satb_active
        /\ satb_active[t]

(***************************************************************************)
(* C15: on_thread_detach loses no buffered work: when it returns, the SATB *)
(* queue and the dirty card queue of the thread are empty and every entry  *)
(* they held at the call is in the queue set it belongs to, as often as it *)
(* was in the thread's queue.                                              *)
(***************************************************************************)
C15_DetachFlushes ==
    \A t \in Threads :
        sb[t].pc = "det_done" =>
            /\ satb[t] = <<>>
            /\ dcq[t] = <<>>
            /\ \A v \in Oops :
                 Occurrences(sb[t].before_satb, v) <= Occurrences(satb_qset, v)
            /\ \A c \in Cards :
                 Occurrences(sb[t].before_dcq, c) <= Occurrences(dcq_qset, c)

\* a thread with entries in both queues has detached, after an earlier
\* thread had flushed entries of its own
C15_Witness ==
    \E t \in Threads :
        /\ sb[t].pc = "det_done"
        /\ sb[t].before_satb # <<>>
        /\ sb[t].before_dcq # <<>>
        /\ Len(satb_qset) > Len(sb[t].before_satb)
        /\ Len(dcq_qset) > Len(sb[t].before_dcq)

(***************************************************************************)
(* C16: walk visits the entries in ascending bucket index and, within a    *)
(* bucket, in chain order; it stops at the first entry for which the       *)
(* walker answers false, visits no later entry and returns false; it       *)
(* returns true exactly when it has visited every entry and the walker     *)
(* never answered false.                                                   *)
(***************************************************************************)
\* the chains of the buckets i, i + 1, ..., one after the other
RECURSIVE ChainsFrom(_)
ChainsFrom(i) == IF i >= table_size THEN <<>> ELSE Chain(i) \o ChainsFrom(i + 1)

IsPrefix(p, q) == Len(p) <= Len(q) /\ SubSeq(q, 1, Len(p)) = p

C16_WalkOrder ==
    \A t \in Threads :
        th[t].pc \in {"wk_bucket", "wk_visit", "wk_ret"} =>
            /\ IsPrefix(th[t].visited, ChainsFrom(0))
            /\ th[t].stopped => th[t].pc = "wk_ret" /\ th[t].res = "false"
            /\ th[t].pc = "wk_ret" =>
                 /\ th[t].res \in {"true", "false"}
                 /\ th[t].res = "true" <=>
                      ~th[t].stopped /\ th[t].visited = ChainsFrom(0)

\* the walker answered false for the second entry and walk returned false
\* with entries left in that bucket and the next
C16_Witness ==
    \E t \in Threads :
        /\ th[t].pc = "wk_ret" /\ th[t].res = "false"
        /\ Len(th[t].visited) = 2
        /\ Len(Chain(0)) > 2
        /\ Len(Chain(1)) > 0

(***************************************************************************)
(* C17: when new_entry fails to allocate, lookup_or_add returns NULL and   *)
(* leaves the table unchanged: the step in which AllocateHeap returns NULL *)
(* to a call takes the call to its return with the result NULL and changes *)
(* no bucket head and no next pointer, and the call has linked no entry.   *)
(***************************************************************************)
C17_AllocationFailure ==
    [][\A t \in Threads :
         th'[t].oom /\ ~th[t].oom =>
            /\ th'[t].pc = "la_ret"
            /\ th'[t].ret = NULL
            /\ ~th'[t].added
            /\ table' = table
            /\ next' = next]_vars

(***************************************************************************)
(* C18: bucket chains are append-only between resets: across every step    *)
(* that is not a step of reset(), the chain of each bucket in the old      *)
(* state is a prefix of its chain in the new state, so no linked entry is  *)
(* removed, replaced or moved.                                             *)
(***************************************************************************)
\* the step is one of a thread inside reset()
ResetStep == \E t \in Threads : th[t].pc \in {"rs_bucket", "rs_delete"} /\ th'[t] # th[t]

C18_AppendOnly ==
    [][~ResetStep =>
         \A i \in 0..(table_size - 1) : IsPrefix(Chain(i), Chain(i)')]_vars

\* both threads have appended an entry behind the static entry of its bucket
C18_Witness ==
    /\ \E i \in 0..(table_size - 1) :
         /\ Len(Chain(i)) >= 3
         /\ Chain(i)[1] = StaticEntry
    /\ th[1].pc = "la_ret" /\ th[1].added
    /\ th[2].pc = "la_ret" /\ th[2].added
    /\ th[1].index = th[2].index

(***************************************************************************)
(* C19: losing a compare-and-swap is never an error: the call deletes its  *)
(* own entry, which is never linked, stays at its node and position and    *)
(* goes on from there instead of returning; the walk advances from a node  *)
(* to the node's successor only; and a call returns NULL only if its       *)
(* allocation failed or its bucket is full of entries of other sites.      *)
(***************************************************************************)
\* the bucket of the call holds MAX_BUCKET_LENGTH or more entries, none of
\* them for the call's stack and flags
Overflowed(t) ==
    /\ Len(Chain(th[t].index)) >= MAX_BUCKET_LENGTH
    /\ \A e \in Range(Chain(th[t].index)) : ~matches(e, th[t].key, th[t].flags)

C19_LostRaceIsNoError ==
    [][\A t \in Threads :
         /\ th'[t].lost \ th[t].lost # {} =>
               /\ th'[t].lost = th[t].lost \cup {th[t].entry}
               /\ heap'[th[t].entry] = "deleted"
               /\ th[t].entry \notin Linked'
               /\ th'[t].pc \in {"la_load_head", "la_advance"}
               /\ th'[t].head = th[t].head
               /\ th'[t].pos_idx = th[t].pos_idx
         /\ th[t].pc = "la_advance" /\ th'[t].pc = "la_loop" =>
               /\ th'[t].head = next[th[t].head]
               /\ th'[t].pos_idx = th[t].pos_idx + 1
         /\ \A e \in th[t].lost : heap[e] = "deleted" /\ e \notin Linked
         /\ th[t].pc = "la_ret" /\ th[t].ret = NULL =>
               th[t].oom \/ Overflowed(t)]_vars

\* a call lost the compare-and-swap at the tail to an entry of another site,
\* went on from there and appended a new entry behind the winner's
C19_Witness ==
    \E t \in Threads :
        /\ th[t].pc = "la_ret"
        /\ th[t].lost # {}
        /\ th[t].added
        /\ th[t].ret # NULL
        /\ th[t].pos_idx = 2

(***************************************************************************)
(* C20: the access counter preserves the reader count: whenever no         *)
(* sharedLock call is mid-flight, the counter is the number of threads     *)
(* that hold a shared lock as long as no compare-and-swap of exclusiveLock *)
(* has succeeded, and _MAGIC_ plus that number afterwards.                 *)
(***************************************************************************)
\* the threads that hold a shared lock
SharedHolders == {t \in Threads : th[t].lock_state = "SharedLock"}

C20_CounterKeepsReaderCount ==
    (\A t \in Threads : th[t].pc \notin {"sl_undo", "halted"}) =>
        access_count = IF excl_done
                       THEN Wrap(_MAGIC_ + Cardinality(SharedHolders))
                       ELSE Cardinality(SharedHolders)

(***************************************************************************)
(* C21: under any interleaving of lookup_or_add calls no bucket chain      *)
(* holds more than MAX_BUCKET_LENGTH entries.                              *)
(***************************************************************************)
C21_BucketLengthBound ==
    \A i \in 0..(table_size - 1) : Len(Chain(i)) <= MAX_BUCKET_LENGTH

(***************************************************************************)
(* C22: outside a safepoint the active flag of every attached thread's     *)
(* SATB queue equals the marking flag of the queue set, whatever the order *)
(* of attaches, marking-cycle starts and marking-cycle ends: a step that   *)
(* flips the marking flag gives every attached thread's queue the new      *)
(* value and leaves the queues of the other threads alone, and a step that *)
(* attaches a thread leaves it with the value of the marking flag.         *)
(***************************************************************************)
C22_AttachedFlagFollowsMarking ==
    [][/\ satb_set_active' # satb_set_active =>
            \A t \in Threads :
               satb_active'[t] = IF life[t] = "attached" THEN satb_set_active'
                                 ELSE satb_active[t]
       /\ \A t \in Threads :
            life'[t] = "attached" => satb_active'[t] = satb_set_active']_vars

\* a thread attached while marking was active, a second one attached and
\* the cycle has ended: both queues are inactive and the first still holds
\* what it recorded during the cycle
C22_Witness ==
    /\ ~satb_set_active
    /\ life[1] = "attached" /\ life[2] = "attached"
    /\ ~satb_active[1] /\ ~satb_active[2]
    /\ satb[1] # <<>>

(***************************************************************************)
(* C23: the assertions at the start of on_thread_attach hold for every     *)
(* thread: between on_thread_create and on_thread_attach the SATB queue of *)
(* the thread is inactive and empty and its dirty card queue is active,    *)
(* even if a marking cycle starts or the thread runs barriers meanwhile.   *)
(***************************************************************************)
C23_AttachAssertionsHold ==
    \A t \in Threads :
        life[t] = "created" /\ sb[t].pc \notin {"att_set", "att_done"} =>
            /\ ~satb_active[t]
            /\ satb[t] = <<>>
            /\ dcq_active[t]

\* a thread of a second life has dirtied a card before its attach, during a
\* marking cycle, and is inside the array pre-write barrier
C23_Witness ==
    \E t \in Threads :
        /\ life[t] = "created"
        /\ satb_set_active
        /\ dcq[t] # <<>>
        /\ dcq_qset # <<>>
        /\ sb[t].pc = "wp_done"
        /\ sb[t].calls # <<>>

(***************************************************************************)
(* C24: in the post-write slow path the store-load fence is executed       *)
(* before the read that tests the card for dirty and before the store that *)
(* dirties it; in invalidate the fence is executed before any card of the  *)
(* range is tested for dirty or written, and only when the range contains  *)
(* a card that is not young: a call that returns without the fence was for *)
(* an empty region or a region of young cards only.                        *)
(***************************************************************************)
\* the cards of the region of the thread's invalidate call
RegionCards(t) ==
    IF g1[t].word_size = 0 THEN {}
    ELSE byte_for(g1[t].start)..byte_for(last(g1[t].start, g1[t].word_size))

C24_FenceBeforeTestAndStore ==
    [][/\ \A t \in Threads :
            \* the steps that test a card for dirty and those that write a card
            /\ g1'[t] # g1[t]
                  /\ g1[t].pc \in {"ps_test", "ps_store", "inv_loop", "inv_store"} =>
                  g1[t].fenced
            /\ g1[t].pc \in {"inv_entry", "inv_skip"} /\ g1'[t] # g1[t] =>
                  /\ ~g1[t].fenced
                  /\ cards' = cards /\ dcq' = dcq
            \* the step of invalidate that executes the fence
            /\ g1[t].pc = "inv_skip" /\ g1'[t].fenced =>
                  /\ g1[t].byte \in RegionCards(t)
                  /\ cards[g1[t].byte] # g1_young_card_val
                  /\ \A c \in RegionCards(t) :
                       c < g1[t].byte => cards[c] = g1_young_card_val
            /\ g1[t].pc = "inv_done" =>
                  (g1[t].fenced <=> \E c \in RegionCards(t) : cards[c] # g1_young_card_val)
       /\ cards' # cards => \E u \in Threads : g1'[u] # g1[u] /\ g1[u].fenced]_vars

\* invalidate has skipped a young card, executed the fence and dirtied the
\* card behind it
C24_Witness ==
    \E t \in Threads :
        /\ g1[t].pc = "inv_done"
        /\ g1[t].fenced
        /\ RegionCards(t) = {0, 1}
        /\ cards[0] = g1_young_card_val
        /\ g1[t].before[1] = clean_card_val
        /\ cards[1] = dirty_card_val

(***************************************************************************)
(* C25: when invalidate on a range and the post-write slow path on a card  *)
(* of the range run concurrently in two threads, the card ends dirty and   *)
(* is enqueued exactly once across both threads' dirty card queues: a card *)
(* in a queue is dirty, and no card is in the queue of the invalidating    *)
(* thread and in the queue of the thread of the slow path.                 *)
(***************************************************************************)
C25_InvalidateAndSlowPathEnqueueOnce ==
    \A c \in Cards :
        /\ c \in Range(dcq[1]) \cup Range(dcq[2]) => cards[c] = dirty_card_val
        /\ ~(c \in Range(dcq[1]) /\ c \in Range(dcq[2]))

(***************************************************************************)
(* C26: every linked entry is in the bucket whose index is the hash of its *)
(* stack modulo table_size, and every non-NULL result of                   *)
(* lookup_or_add(key, flags) is an entry of the bucket of key's hash whose *)
(* flags equal flags and whose stack equals key.                           *)
(***************************************************************************)
C26_EntriesInBucketOfHash ==
    /\ \A i \in 0..(table_size - 1) :
         \A e \in Range(Chain(i)) : hash(site[e].stack) % table_size = i
    /\ \A t \in Threads :
         th[t].pc = "la_ret" /\ th[t].ret # NULL =>
            /\ th[t].ret \in Range(Chain(hash(th[t].key) % table_size))
            /\ site[th[t].ret].flags = th[t].flags
            /\ site[th[t].ret].stack = th[t].key

\* both buckets hold entries and a call has found its site behind the static
\* entry and the entry of another stack of the same bucket
C26_Witness ==
    \E t \in Threads :
        /\ th[t].pc = "la_ret" /\ ~th[t].added
        /\ th[t].ret # NULL
        /\ Len(Chain(th[t].index)) = 3
        /\ Chain(th[t].index)[3] = th[t].ret
        /\ \E i \in 0..(table_size - 1) : i # th[t].index /\ table[i] # NULL

(***************************************************************************)
(* C27: two lookup_or_add calls with the same call stack and different     *)
(* memory flags return two distinct sites, both linked in the same bucket; *)
(* an existing entry is returned only when both its flags and its stack    *)
(* equal the arguments of the call.                                        *)
(***************************************************************************)
C27_FlagsArePartOfTheKey ==
    /\ \A t, u \in Threads :
         /\ th[t].pc = "la_ret" /\ th[u].pc = "la_ret"
         /\ th[t].ret # NULL /\ th[u].ret # NULL
         /\ th[t].key = th[u].key /\ th[t].flags # th[u].flags
         => /\ th[t].ret # th[u].ret
            /\ th[t].index = th[u].index
            /\ {th[t].ret, th[u].ret} \subseteq Range(Chain(th[t].index))
    /\ \A t \in Threads :
         th[t].pc = "la_ret" /\ th[t].ret # NULL /\ ~th[t].added =>
            site[th[t].ret] = [stack |-> th[t].key, flags |-> th[t].flags]

\* two calls with one stack and different flags have returned; the second
\* walked past the entry of the first and found its own behind it
C27_Witness ==
    \E t, u \in Threads :
        /\ th[t].pc = "la_ret" /\ th[u].pc = "la_ret"
        /\ th[t].ret # NULL /\ th[u].ret # NULL
        /\ th[t].key = th[u].key /\ th[t].flags # th[u].flags
        /\ ~th[u].added
        /\ th[t].pos_idx < th[u].pos_idx

(***************************************************************************)
(* C28: after the first initialize() the table holds exactly one entry,    *)
(* the bootstrap entry of category mtNMT, at the head of the bucket of its *)
(* pseudo call stack's hash, and hash_entry_allocation_site refers to it;  *)
(* reset() never deletes that entry, and when it returns                   *)
(* hash_entry_allocation_stack and hash_entry_allocation_site are NULL.    *)
(***************************************************************************)
C28_BootstrapEntry ==
    [][/\ inits = 0 /\ inits' = 1 =>
            /\ Linked' = {StaticEntry}
            /\ \A i \in 0..(table_size - 1) :
                 table'[i] = IF i = hash(BootStack) % table_size
                             THEN StaticEntry ELSE NULL
            /\ site'[StaticEntry] = [stack |-> BootStack, flags |-> "mtNMT"]
            /\ hash_entry_allocation_stack' = BootStack
            /\ hash_entry_allocation_site' = StaticEntry
       /\ heap'[StaticEntry] = "static"
       /\ \A t \in Threads :
            th[t].pc = "rs_bucket" /\ th'[t].pc = "idle" =>
               /\ hash_entry_allocation_stack' = NoStack
               /\ hash_entry_allocation_site' = NULL
               /\ \A i \in 0..(table_size - 1) : table'[i] = NULL]_vars

\* reset() has returned after it deleted an entry that was appended behind
\* the bootstrap entry, and kept the bootstrap entry
C28_Witness ==
    /\ AfterReset
    /\ \A t \in Threads : th[t].pc = "idle"
    /\ heap[StaticEntry] = "static"
    /\ next[StaticEntry] # NULL
    /\ heap[next[StaticEntry]] = "deleted"
    /\ hash_entry_allocation_stack = NoStack

(***************************************************************************)
(* C29: every node reached from a bucket head through next pointers is a   *)
(* live node, allocated and not deleted: the entry a call discards after a *)
(* lost compare-and-swap is never linked, and after reset() and a second   *)
(* initialize() the table holds the bootstrap entry and no node that the   *)
(* reset deleted.                                                          *)
(***************************************************************************)
C29_LinkedNodesAreLive ==
    \A e \in Linked : heap[e] \in {"live", "static"}

(***************************************************************************)
(* C30: the position outputs of lookup_or_add round-trip: whenever         *)
(* lookup_or_add(key, &bucket_idx, &pos_idx, flags) has returned a site,   *)
(* found, installed as bucket head or appended after a race,               *)
(* malloc_site(bucket_idx, pos_idx) returns that site, then and as long as *)
(* no reset runs, whatever other lookup_or_add calls do meanwhile.         *)
(***************************************************************************)
C30_PositionRoundTrip ==
    \A t \in Threads :
        th[t].pc = "la_ret" /\ th[t].ret # NULL =>
            malloc_site(th[t].index, th[t].pos_idx) = th[t].ret

\* a call appended its entry behind the static entry; the other lost that
\* race, appended behind the winner, and both calls have returned
C30_Witness ==
    \E t, u \in Threads :
        /\ th[t].pc = "la_ret" /\ th[t].added /\ th[t].pos_idx = 1
        /\ th[u].pc = "la_ret" /\ th[u].added /\ th[u].pos_idx = 2
        /\ th[u].lost # {}
        /\ Chain(th[u].index) = <<StaticEntry, th[t].ret, th[u].ret>>

(***************************************************************************)
(* C31: every lookup_or_add call terminates without waiting on another     *)
(* thread: whatever the other threads do, the call always has a step it    *)
(* can take, every step it takes brings it closer to its return, it        *)
(* inspects at most MAX_BUCKET_LENGTH + 1 chain nodes and attempts at most *)
(* one compare-and-swap of the bucket head and at most one of the tail per *)
(* inspected node.                                                         *)
(***************************************************************************)
InLookup(r) == r.pc \in {"la_check_head", "la_cas_head", "la_load_head", "la_loop",
                         "la_cas_tail", "la_advance", "la_ret"}

\* a bound on the steps the call has left
StepsLeft(r) ==
    LET nodes == 3 * (MAX_BUCKET_LENGTH + 1 - r.pos_idx)
    IN CASE r.pc = "la_check_head" -> 3 * (MAX_BUCKET_LENGTH + 1) + 6
         [] r.pc = "la_cas_head"   -> 3 * (MAX_BUCKET_LENGTH + 1) + 5
         [] r.pc = "la_load_head"  -> 3 * (MAX_BUCKET_LENGTH + 1) + 4
         [] r.pc = "la_loop"       -> nodes + 3
         [] r.pc = "la_cas_tail"   -> nodes + 2
         [] r.pc = "la_advance"    -> nodes + 1
         [] r.pc = "la_ret"        -> 1
         [] OTHER                  -> 0

C31_LookupIsWaitFree ==
    [][\A t \in Threads :
         /\ th[t].inspected <= MAX_BUCKET_LENGTH + 1
         /\ th'[t].inspected <= MAX_BUCKET_LENGTH + 1
         /\ th[t].head_cas <= 1 /\ th'[t].head_cas <= 1
         /\ th[t].tail_cas <= 1 /\ th'[t].tail_cas <= 1
         /\ InLookup(th[t]) =>
               /\ ENABLED lookup_steps(t)
               /\ StepsLeft(th[t]) > 0
               /\ th'[t] # th[t] => StepsLeft(th'[t]) < StepsLeft(th[t])]_vars

\* a call lost the compare-and-swap at the tail of a node, went on to the
\* winner's entry and returned NULL from a full bucket after it had
\* inspected MAX_BUCKET_LENGTH + 1 nodes
C31_Witness ==
    \E t \in Threads :
        /\ th[t].pc = "la_ret" /\ th[t].ret = NULL
        /\ th[t].inspected = MAX_BUCKET_LENGTH + 1
        /\ th[t].lost # {}
        /\ ~th[t].oom

(***************************************************************************)
(* C32: exclusive access is never released: once exclusiveLock() has       *)
(* returned to shutdown() the access counter is negative in every later    *)
(* state, so that after shutdown() no walk_malloc_site call and no lookup  *)
(* holds a shared lock or visits an entry.                                 *)
(***************************************************************************)
\* exclusiveLock() has returned: reset() is running, or has run and
\* initialize() has not run since
ExclusiveHeld ==
    \/ \E t \in Threads : th[t].lock_state = "ExclusiveLock"
    \/ AfterReset

C32_ExclusiveNeverReleased ==
    /\ ExclusiveHeld => access_count < 0
    /\ AfterReset =>
         \A t \in Threads :
            /\ th[t].lock_state # "SharedLock"
            /\ th[t].pc \in {"wk_bucket", "wk_visit", "wk_ret"} => th[t].visited = <<>>

(***************************************************************************)
(* C33: the two assertions at the head of exclusiveLock hold on every     *)
(* call: a thread enters exclusiveLock (from shutdown) only while the      *)
(* counter is non-negative and its AccessLock is not in the ExclusiveLock  *)
(* state, so no call of shutdown, a second one included, ends in a failed  *)
(* assertion.                                                              *)
(***************************************************************************)
C33_ExclusiveLockPreconditions ==
    [][\A t \in Threads :
         /\ vm_aborted' = vm_aborted
         /\ (th[t].pc = "idle" /\ th'[t].pc = "el_read_val") =>
               /\ access_count >= 0
               /\ th[t].lock_state # "ExclusiveLock"]_vars

====
